---- MODULE Spec2Model ----
(***************************************************************************)
(* A model of the OCI distribution client of                               *)
(* crates/oci-distribution/src/client.rs: the token cache, the auth flow,  *)
(* pull, push and fetch_manifest_digest as sequences of HTTP round trips   *)
(* against a registry that may answer anything.                            *)
(*                                                                         *)
(* Strings are sequences of atoms (the pieces a format! call joins), so    *)
(* URL composition is concatenation and starts_with is a test of the       *)
(* first atom.  Option<T> is a sequence of length 0 (None) or 1 (Some).    *)
(* Byte strings are sequences of byte atoms.                               *)
(***************************************************************************)
EXTENDS Integers, Sequences, FiniteSets, TLC

\* ------------------------------------------------------------------ bounds

\* The longest layer list of a pushed ImageData and of a pulled manifest.
MaxLayers == 2

\* ------------------------------------------------------------- option type

NoneOpt == <<>>

Some(v) == <<v>>

IsSome(o) == Len(o) = 1

Unwrap(o) == o[1]

\* ------------------------------------------------------------------ values

Registries == {"r1", "r2"}

Repositories == {"a", "b"}

\* Reference: registry, repository, Option<tag>, Option<digest>.
Reference(reg, repo, tag, dig) ==
    [registry |-> reg, repository |-> repo, tag |-> tag, digest |-> dig]

\* The references the calls of the model are made with.
References ==
    { Reference("r1", "a", Some("v1"), NoneOpt),
      Reference("r1", "b", Some("v1"), Some("sha256:51d9")),
      Reference("r2", "a", NoneOpt, NoneOpt) }

\* ClientProtocol: Http, Https, HttpsExcept(Vec<String>).
ProtocolHttp == [kind |-> "Http", exceptions |-> <<>>]

ProtocolHttps == [kind |-> "Https", exceptions |-> <<>>]

ProtocolHttpsExcept(exceptions) == [kind |-> "HttpsExcept", exceptions |-> exceptions]

\* The protocol policies a client of the model is constructed with.
Protocols == {ProtocolHttpsExcept(<<"r2">>)}

\* RegistryOperation
OperationPull == "Pull"

OperationPush == "Push"

\* Token strings a token endpoint may hand out.
TokenStrings == {"t1", "t2"}

Bytes == {"x", "y"}

\* Media types of layers.
WASM_LAYER_MEDIA_TYPE == "application/vnd.wasm.content.layer.v1+wasm"

TEXT_PLAIN == "text/plain"

MediaTypes == {WASM_LAYER_MEDIA_TYPE, TEXT_PLAIN}

IMAGE_MANIFEST_MEDIA_TYPE == "application/vnd.oci.image.manifest.v1+json"

IMAGE_MANIFEST_LIST_MEDIA_TYPE == "application/vnd.docker.distribution.manifest.list.v2+json"

WASM_CONFIG_MEDIA_TYPE == "application/vnd.wasm.config.v1+json"

\* HTTP status codes the model's registry answers with.
StatusOK == 200

StatusCreated == 201

StatusAccepted == 202

StatusFound == 302

StatusUnauthorized == 401

StatusServerError == 500

Statuses ==
    {StatusOK, StatusCreated, StatusAccepted, StatusFound, StatusUnauthorized,
     StatusServerError}

is_client_error(s) == s >= 400 /\ s < 500

is_server_error(s) == s >= 500 /\ s < 600

\* All sequences over S of length at most n.
SeqUpTo(S, n) == UNION {[1..k -> S] : k \in 0..n}

\* ----------------------------------------------------------------- results

Ok(v) == [ok |-> TRUE, panic |-> FALSE, val |-> v, err |-> ""]

Err(e) == [ok |-> FALSE, panic |-> FALSE, val |-> <<>>, err |-> e]

\* An unwrap of None or an index out of range: the task aborts.
Panic(e) == [ok |-> FALSE, panic |-> TRUE, val |-> <<>>, err |-> e]

\* --------------------------------------------------------------- digests

\* sha256_digest: "sha256:" followed by the hash of the bytes.  The hash is
\* modelled as collision free: distinct byte strings give distinct digests.
sha256_digest(bytes) == <<"sha256:">> \o bytes

RECURSIVE Flatten(_)
Flatten(seqs) ==
    IF seqs = <<>> THEN <<>> ELSE Head(seqs) \o Flatten(Tail(seqs))

\* ImageLayer::new
ImageLayer(data, media_type) == [data |-> data, media_type |-> media_type]

\* ImageData { layers, digest }
ImageData(layers, digest) == [layers |-> layers, digest |-> digest]

LayerDataOf(layers) == [i \in DOMAIN layers |-> layers[i].data]

\* ImageData::sha256_digest: the digest of all layer bytes, in layer order.
image_sha256_digest(image_data) ==
    sha256_digest(Flatten(LayerDataOf(image_data.layers)))

\* image_after_digest with the returned value written to the field.
image_after_digest_stored(image_data) ==
    [image_data EXCEPT !.digest = Some(IF IsSome(image_data.digest)
                                       THEN Unwrap(image_data.digest)
                                       ELSE image_sha256_digest(image_data))]

\* ImageData::digest(&self), line 51: the ImageData after the call; the
\* borrow is shared, so nothing of it is written.
image_after_digest(image_data) == image_data

\* ImageData::digest
image_digest(image_data) ==
    IF IsSome(image_data.digest)
    THEN Unwrap(image_data.digest)
    ELSE image_sha256_digest(image_data)

\* -------------------------------------------------------------------- URLs

\* ClientProtocol::scheme_for
scheme_for(protocol, registry) ==
    CASE protocol.kind = "Https" -> "https"
      [] protocol.kind = "Http" -> "http"
      [] protocol.kind = "HttpsExcept" ->
            IF \E i \in DOMAIN protocol.exceptions : protocol.exceptions[i] = registry
            THEN "http"
            ELSE "https"

\* The host a URL names, when it has the form scheme://host...
UrlHost(url) ==
    IF Len(url) >= 3 /\ url[2] = "://" THEN Some(url[3]) ELSE NoneOpt

\* to_v2_manifest_url with the tag taken before the digest.
to_v2_manifest_url_tag_first(protocol, reference) ==
    <<scheme_for(protocol, reference.registry), "://", reference.registry,
      "/v2/", reference.repository, "/manifests/",
      IF IsSome(reference.tag) THEN Unwrap(reference.tag)
      ELSE IF IsSome(reference.digest) THEN Unwrap(reference.digest)
      ELSE "latest">>

\* Client::to_v2_manifest_url
to_v2_manifest_url(protocol, reference) ==
    IF IsSome(reference.digest)
    THEN <<scheme_for(protocol, reference.registry), "://", reference.registry,
           "/v2/", reference.repository, "/manifests/", Unwrap(reference.digest)>>
    ELSE <<scheme_for(protocol, reference.registry), "://", reference.registry,
           "/v2/", reference.repository, "/manifests/",
           IF IsSome(reference.tag) THEN Unwrap(reference.tag) ELSE "latest">>

to_v2_blob_url(protocol, registry, repository, digest) ==
    <<scheme_for(protocol, registry), "://", registry, "/v2/", repository, "/blobs/">>
        \o digest

to_v2_blob_upload_url(protocol, reference) ==
    to_v2_blob_url(protocol, reference.registry, reference.repository, <<"uploads/">>)

\* The URL of the version request of the auth flow.
auth_discovery_url(protocol, image) ==
    <<scheme_for(protocol, image.registry), "://", image.registry, "/v2/">>

\* location_header_to_url prefixing every value.
location_header_to_url_always(protocol, image, lh) ==
    <<scheme_for(protocol, image.registry), "://", image.registry>> \o lh

\* location_header_to_url
location_header_to_url(protocol, image, lh) ==
    IF Len(lh) >= 1 /\ lh[1] = "/v2/"
    THEN <<scheme_for(protocol, image.registry), "://", image.registry>> \o lh
    ELSE lh

\* ------------------------------------------------------------ token cache

contains_key(toks, registry) == registry \in DOMAIN toks

\* insert into a map that is started afresh.
insert_fresh(toks, registry, token) == [r \in {registry} |-> token]

\* insert keeping the entry a registry already has.
insert_keep_first(toks, registry, token) ==
    [r \in (DOMAIN toks) \cup {registry} |-> IF r \in DOMAIN toks THEN toks[r] ELSE token]

\* HashMap::insert
insert(toks, registry, token) ==
    [r \in (DOMAIN toks) \cup {registry} |-> IF r = registry THEN token ELSE toks[r]]

\* RegistryToken::bearer_token
bearer_token(token) == <<"Bearer ", token>>

\* The registry whose cache entry a call on `image` reads and writes.
token_key(image) == image.registry

\* auth_headers: the Authorization header, if a token is cached for the
\* registry of the image (the Accept header is the same on every request).
auth_headers(toks, image) ==
    IF contains_key(toks, token_key(image))
    THEN Some(bearer_token(toks[token_key(image)]))
    ELSE NoneOpt

\* needs_auth with the check of the token cache left out.
needs_auth_skipped(toks, image) == FALSE

\* The test at the head of pull, push and fetch_manifest_digest.
needs_auth(toks, image) == ~contains_key(toks, image.registry)

\* ------------------------------------------------------------- HTTP model

\* A header value: to_str fails on one that is not visible ASCII.
HeaderValue(str) == [ascii |-> TRUE, str |-> str]

NonAsciiHeader == [ascii |-> FALSE, str |-> <<>>]

\* A request as it goes on the wire.  authorization is Option<header value>;
\* range, content_length and body are set by the upload requests.
Request(kind, method, url, authorization) ==
    [kind |-> kind, method |-> method, url |-> url, authorization |-> authorization,
     range |-> <<>>, content_length |-> NoneOpt, body |-> <<>>, manifest |-> NoneOpt]

NoRequest == Request("none", "", <<>>, NoneOpt)

AuthKinds == {"discovery", "token"}

RegistryKinds ==
    {"manifest_get", "blob_get", "upload_begin", "upload_patch", "upload_end",
     "manifest_put"}

\* RegistryAuth values the calls are made with.
RegistryAuths == {"Anonymous"}

\* apply_authentication: Anonymous adds no Authorization header.
apply_authentication(authentication) == NoneOpt

\* The Bearer challenge of a WWW-Authenticate header.
BearerChallenge(realm, service, scope) ==
    [realm |-> realm, service |-> service, scope |-> scope]

\* The scope a registry names in its challenge.
ChallengeScope == <<"repository:", "other", ":pull">>

TokenRealm == <<"https", "://", "auth.example", "/token">>

\* What the version request may be answered with: a transport error, or a
\* response whose WWW-Authenticate header is absent, unparsable, without a
\* Bearer challenge, or with one (realm and service each present or not).
\* auth does not look at the status of this response (0 here).
DiscoveryResponses ==
    {[transport_ok |-> FALSE, status |-> 0, www |-> "absent", bearer |-> <<>>]}
    \cup {[transport_ok |-> TRUE, status |-> 0, www |-> w, bearer |-> <<>>] :
            w \in {"absent", "unparsable", "basic"}}
    \cup {[transport_ok |-> TRUE, status |-> 0, www |-> "bearer",
           bearer |-> <<BearerChallenge(r, s, Some(ChallengeScope))>>] :
            r \in {NoneOpt, Some(TokenRealm)}, s \in {NoneOpt, Some("svc")}}

\* What the token endpoint may answer: a transport error, or a status with a
\* body that holds the token under "token", under "access_token", or not at
\* all (the body does not decode as a RegistryToken).
TokenResponses ==
    {[transport_ok |-> FALSE, status |-> 0, field |-> "none", token |-> ""]}
    \cup {[transport_ok |-> TRUE, status |-> StatusOK, field |-> f, token |-> t] :
            f \in {"token", "access_token"}, t \in TokenStrings}
    \cup {[transport_ok |-> TRUE, status |-> s, field |-> "none", token |-> ""] :
            s \in {StatusOK, StatusUnauthorized, StatusServerError}}

\* auth_scope asking for pull whatever the operation.
auth_scope_pull_only(image, operation) == <<"repository:", image.repository, ":pull">>

\* The scope of the token request.
auth_scope(image, operation) ==
    IF operation = OperationPull
    THEN <<"repository:", image.repository, ":pull">>
    ELSE <<"repository:", image.repository, ":pull,push">>

\* The token request: GET realm?service=..&scope=..
token_request_url(realm, service, scope) ==
    realm \o <<"?service=", service, "&scope=">> \o scope

\* auth_after_discovery taking a header without a Bearer challenge for a
\* failure.
auth_after_discovery_bearer_only(res) ==
    IF ~res.transport_ok THEN Err("transport")
    ELSE IF res.www = "absent" THEN Ok(<<>>)
    ELSE IF res.www \in {"unparsable", "basic"} THEN Err("www-authenticate parse")
    ELSE IF ~IsSome(res.bearer[1].realm) THEN Panic("realm unwrap")
    ELSE IF ~IsSome(res.bearer[1].service) THEN Panic("service unwrap")
    ELSE Ok(<<"exchange">>)

\* The part of auth that follows the version request (lines 247-269): Ok(())
\* without a token request, an error, a panic on a missing realm or service,
\* or "exchange": go on to the token endpoint.
auth_after_discovery(res) ==
    IF ~res.transport_ok THEN Err("transport")
    ELSE IF res.www = "absent" THEN Ok(<<>>)
    ELSE IF res.www = "unparsable" THEN Err("www-authenticate parse")
    ELSE IF res.www = "basic" THEN Ok(<<>>)
    ELSE IF ~IsSome(res.bearer[1].realm) THEN Panic("realm unwrap")
    ELSE IF ~IsSome(res.bearer[1].service) THEN Panic("service unwrap")
    ELSE Ok(<<"exchange">>)

\* auth_after_token without the access_token alias of RegistryToken.
auth_after_token_no_alias(res) ==
    IF ~res.transport_ok THEN Err("transport")
    ELSE IF res.status = StatusOK
         THEN IF res.field = "token"
              THEN Ok(<<res.token>>)
              ELSE Err("Failed to decode registry token from auth request")
         ELSE Err("failed to authenticate")

\* The part of auth that follows the token request (lines 282-297): the token
\* to store, or the error.
auth_after_token(res) ==
    IF ~res.transport_ok THEN Err("transport")
    ELSE IF res.status = StatusOK
         THEN IF res.field \in {"token", "access_token"}
              THEN Ok(<<res.token>>)
              ELSE Err("Failed to decode registry token from auth request")
         ELSE Err("failed to authenticate")

\* digest_header_value
digest_header_value(hdr) ==
    IF ~IsSome(hdr) THEN Err("resgistry did not return a digest header")
    ELSE IF ~Unwrap(hdr).ascii THEN Err("header to_str")
    ELSE Ok(Unwrap(hdr).str)

\* --------------------------------------------------------------- manifests

\* OciDescriptor
OciDescriptor(media_type, digest, size, annotations) ==
    [media_type |-> media_type, digest |-> digest, size |-> size,
     annotations |-> annotations]

\* OciManifest
OciManifest(schema_version, media_type, cfg, layers) ==
    [schema_version |-> schema_version, media_type |-> media_type, config |-> cfg,
     layers |-> layers]

\* The layer descriptors a pulled manifest is made of.
PulledDescriptors ==
    { OciDescriptor(WASM_LAYER_MEDIA_TYPE, <<"sha256:", "l1">>, 1, NoneOpt),
      OciDescriptor(TEXT_PLAIN, <<"sha256:", "l2">>, 1, NoneOpt) }

PulledConfig == OciDescriptor(WASM_CONFIG_MEDIA_TYPE, <<"sha256:", "c1">>, 1, NoneOpt)

\* The body of a 200 manifest response: text that parses as a Versioned
\* object or not, and as an OciManifest or not.
ManifestText(versioned, schema_version, media_type, oci, layers) ==
    [versioned |-> versioned, schema_version |-> schema_version,
     media_type |-> media_type, oci |-> oci, layers |-> layers]

GarbageText == ManifestText(FALSE, 0, NoneOpt, FALSE, <<>>)

ManifestMediaTypes ==
    {NoneOpt, Some(IMAGE_MANIFEST_MEDIA_TYPE), Some(IMAGE_MANIFEST_LIST_MEDIA_TYPE)}

\* The bodies a 200 is answered with: text that is no Versioned object;
\* every version and media type with one layer, as an OciManifest or not;
\* and, with version 2, every media type with every layer list.
ManifestTexts ==
    {GarbageText}
    \cup {ManifestText(TRUE, v, m, oci, <<d>>) :
            v \in {1, 2}, m \in ManifestMediaTypes, oci \in BOOLEAN,
            d \in {CHOOSE x \in PulledDescriptors : TRUE}}
    \cup {ManifestText(TRUE, 2, m, TRUE, l) :
            m \in ManifestMediaTypes, l \in SeqUpTo(PulledDescriptors, MaxLayers)}

\* validate_image_manifest without the check of the schema version.
validate_image_manifest_any_version(text) ==
    IF ~text.versioned THEN Err("Failed to parse manifest as a Versioned object")
    ELSE IF IsSome(text.media_type) /\ Unwrap(text.media_type) # IMAGE_MANIFEST_MEDIA_TYPE
         THEN Err("unsupported media type")
    ELSE Ok(<<>>)

\* validate_image_manifest
validate_image_manifest(text) ==
    IF ~text.versioned THEN Err("Failed to parse manifest as a Versioned object")
    ELSE IF text.schema_version # 2 THEN Err("unsupported schema version")
    ELSE IF IsSome(text.media_type) /\ Unwrap(text.media_type) # IMAGE_MANIFEST_MEDIA_TYPE
         THEN Err("unsupported media type")
    ELSE Ok(<<>>)

\* serde_json::from_str::<OciManifest>, lines 382-387
parse_oci_manifest(text) ==
    IF text.oci
    THEN Ok(OciManifest(text.schema_version, text.media_type, PulledConfig, text.layers))
    ELSE Err("Failed to parse response as an OciManifest")

\* The first layer, from index i on, whose media type is not accepted (0: none).
RECURSIVE first_rejected(_, _, _)
first_rejected(layers, accepted_media_types, i) ==
    IF i > Len(layers) THEN 0
    ELSE IF ~(\E j \in DOMAIN accepted_media_types :
                accepted_media_types[j] = layers[i].media_type)
         THEN i
    ELSE first_rejected(layers, accepted_media_types, i + 1)

\* validate_layers looking at the first layer only.
validate_layers_first_only(manifest, accepted_media_types) ==
    IF Len(manifest.layers) = 0 THEN Err("no layers to pull")
    ELSE IF first_rejected(manifest.layers, accepted_media_types, 1) = 1
         THEN Err("incompatible layer media type")
    ELSE Ok(<<>>)

\* validate_layers without the check for an empty layer list.
validate_layers_allow_empty(manifest, accepted_media_types) ==
    IF first_rejected(manifest.layers, accepted_media_types, 1) # 0
    THEN Err("incompatible layer media type")
    ELSE Ok(<<>>)

\* validate_layers
validate_layers(manifest, accepted_media_types) ==
    IF Len(manifest.layers) = 0 THEN Err("no layers to pull")
    ELSE IF first_rejected(manifest.layers, accepted_media_types, 1) # 0
         THEN Err("incompatible layer media type")
    ELSE Ok(<<>>)

\* The 4xx arm of fetch_manifest_digest and pull_manifest.
client_error_result(envelope) ==
    IF ~IsSome(envelope) THEN Err("envelope decode")
    ELSE IF Len(Unwrap(envelope)) = 0 THEN Panic("errors[0]")
    ELSE Err("registry error")

\* fetch_manifest_digest, lines 322-336, on a response that arrived.
fetch_manifest_digest_result(res) ==
    IF res.status = StatusOK THEN digest_header_value(res.digest)
    ELSE IF is_client_error(res.status) THEN client_error_result(res.envelope)
    ELSE IF is_server_error(res.status) THEN Err("Server error")
    ELSE Err("An unexpected error occured")

\* pull_manifest, lines 374-402, on a response that arrived: the manifest and
\* the digest header, or the error.
pull_manifest_result(res) ==
    IF res.status = StatusOK
    THEN LET digest == digest_header_value(res.digest)
             valid == validate_image_manifest(res.text)
             manifest == parse_oci_manifest(res.text)
         IN  IF ~digest.ok THEN digest
             ELSE IF ~valid.ok THEN valid
             ELSE IF ~manifest.ok THEN manifest
             ELSE Ok([manifest |-> manifest.val, digest |-> digest.val])
    ELSE IF is_client_error(res.status) THEN client_error_result(res.envelope)
    ELSE IF is_server_error(res.status) THEN Err("Server error")
    ELSE Err("An unexpected error occured")

\* What the manifest GET may be answered with.  digest is the
\* Docker-Content-Digest header; envelope is the decoded error body of a 4xx
\* (Option of its errors list; None: the body does not decode).
ManifestDigests == {<<"sha256:", "m1">>}

DigestHeaders ==
    {NoneOpt, Some(NonAsciiHeader)} \cup {Some(HeaderValue(d)) : d \in ManifestDigests}

Envelopes == {NoneOpt, Some(<<>>), Some(<<"MANIFEST_UNKNOWN">>)}

ManifestResponse(transport_ok, st, digest, text, envelope) ==
    [transport_ok |-> transport_ok, status |-> st, digest |-> digest, text |-> text,
     envelope |-> envelope]

ManifestResponses ==
    {ManifestResponse(FALSE, 0, NoneOpt, GarbageText, NoneOpt)}
    \cup {ManifestResponse(TRUE, StatusOK, d, t, NoneOpt) :
            d \in DigestHeaders, t \in ManifestTexts}
    \cup {ManifestResponse(TRUE, s, NoneOpt, GarbageText, NoneOpt) :
            s \in {StatusFound, StatusServerError}}
    \cup {ManifestResponse(TRUE, StatusUnauthorized, NoneOpt, GarbageText, e) :
            e \in Envelopes}

\* The manifest responses fetch_manifest_digest is answered with: it does not
\* read the body of a 200.
DigestResponses == {res \in ManifestResponses : res.text = GarbageText}

\* What a blob GET may be answered with: the send fails, or a status and a
\* body that streams to its end or breaks off.
LayerResponse(transport_ok, st, stream_ok, data) ==
    [transport_ok |-> transport_ok, status |-> st, stream_ok |-> stream_ok,
     data |-> data]

LayerResponses ==
    { LayerResponse(FALSE, 0, FALSE, <<>>),
      LayerResponse(TRUE, StatusOK, FALSE, <<>>),
      LayerResponse(TRUE, StatusOK, TRUE, <<"x">>),
      LayerResponse(TRUE, StatusUnauthorized, TRUE, <<"y">>),
      LayerResponse(TRUE, StatusServerError, TRUE, <<"y">>) }

\* pull_layer_result taking any status but 200 for a failure.
pull_layer_result_status_checked(res) ==
    IF ~res.transport_ok THEN Err("transport")
    ELSE IF res.status # StatusOK THEN Err("unexpected status")
    ELSE IF ~res.stream_ok THEN Err("stream")
    ELSE Ok(res.data)

\* pull_layer, lines 439-451, on the answer: the bytes written to `out`.
pull_layer_result(res) ==
    IF ~res.transport_ok THEN Err("transport")
    ELSE IF ~res.stream_ok THEN Err("stream")
    ELSE Ok(res.data)

\* ------------------------------------------------------------------ upload

\* The Location header values a registry answers with: a session URL given
\* as a path, and an absolute URL on another host.
LocationValues == {<<"/v2/", "u1">>, <<"https", "://", "r2", "/u2">>}

LocationHeaders ==
    {NoneOpt, Some(NonAsciiHeader)} \cup {Some(HeaderValue(l)) : l \in LocationValues}

UploadResponse(transport_ok, st, location) ==
    [transport_ok |-> transport_ok, status |-> st, location |-> location]

\* What an upload request or the manifest PUT may be answered with.
UploadResponses ==
    {UploadResponse(FALSE, 0, NoneOpt), UploadResponse(TRUE, StatusUnauthorized, NoneOpt)}
    \cup {UploadResponse(TRUE, s, l) :
            s \in {StatusCreated, StatusAccepted}, l \in LocationHeaders}

\* What extract_location_header returned for response res, if it was called:
\* a send that fails returns before it.
Extracted(res, got) == IF res.transport_ok THEN Some(got) ELSE NoneOpt

\* extract_location_header taking every 2xx for the expected status.
extract_location_header_any_2xx(protocol, image, res, expected_status) ==
    IF res.status >= 200 /\ res.status < 300
    THEN IF ~IsSome(res.location)
         THEN Err("registry did not return a location header")
         ELSE IF ~Unwrap(res.location).ascii THEN Err("header to_str")
         ELSE Ok(location_header_to_url(protocol, image, Unwrap(res.location).str))
    ELSE Err("An unexpected error occured")

\* extract_location_header
extract_location_header(protocol, image, res, expected_status) ==
    IF res.status = expected_status
    THEN IF ~IsSome(res.location)
         THEN Err("registry did not return a location header")
         ELSE IF ~Unwrap(res.location).ascii THEN Err("header to_str")
         ELSE Ok(location_header_to_url(protocol, image, Unwrap(res.location).str))
    ELSE Err("An unexpected error occured")

\* The result of an upload request: the transport's error or what
\* extract_location_header makes of the response.
upload_result(protocol, image, res, expected_status) ==
    IF ~res.transport_ok THEN Err("transport")
    ELSE extract_location_header(protocol, image, res, expected_status)

\* end_byte taken as exclusive.
end_byte_exclusive(start_byte, len) == start_byte + len

\* push_layer, line 500
end_byte(start_byte, len) == start_byte + len - 1

\* push_layer, line 504: the Content-Range header
content_range(start_byte, len) == <<start_byte, end_byte(start_byte, len)>>

\* push_layer, lines 521-525: the cursor it returns
next_byte(start_byte, len) == end_byte(start_byte, len) + 1

\* next_location keeping the session's first Location.
next_location_kept(location, returned) == location

\* push, lines 208-209: the location the next request of the session goes to
next_location(location, returned) == returned

\* end_push_session, line 478
end_session_url(location, digest) == location \o <<"&digest=">> \o digest

\* generate_manifest giving every layer descriptor the digest of the image.
generate_manifest_image_digest(image_data, config_data, config_media_type) ==
    OciManifest(2, NoneOpt,
        OciDescriptor(config_media_type, sha256_digest(config_data), Len(config_data),
                      NoneOpt),
        [i \in DOMAIN image_data.layers |->
            OciDescriptor(image_data.layers[i].media_type,
                          image_sha256_digest(image_data),
                          Len(image_data.layers[i].data),
                          Some([title |-> image_sha256_digest(image_data)]))])

\* generate_manifest
generate_manifest(image_data, config_data, config_media_type) ==
    OciManifest(2, NoneOpt,
        OciDescriptor(config_media_type, sha256_digest(config_data), Len(config_data),
                      NoneOpt),
        [i \in DOMAIN image_data.layers |->
            OciDescriptor(image_data.layers[i].media_type,
                          sha256_digest(image_data.layers[i].data),
                          Len(image_data.layers[i].data),
                          Some([title |-> sha256_digest(image_data.layers[i].data)]))])

\* push, lines 218-221: the manifest that is pushed
push_manifest_of(c) ==
    IF IsSome(c.image_manifest)
    THEN Unwrap(c.image_manifest)
    ELSE generate_manifest(c.image_data, c.config_data, c.config_media_type)

\* The digest a session is finalized with: image_data.digest() for the
\* layers (line 214), manifest.config.digest for the config (line 222).
session_digest(c, session) ==
    IF session = "layers" THEN image_digest(c.image_data)
    ELSE push_manifest_of(c).config.digest

NonEmptyChunk(data) == Len(data) > 0

\* session_chunks passing over the layers that hold no bytes.
session_chunks_skip_empty(c, session) ==
    IF session = "layers" THEN SelectSeq(LayerDataOf(c.image_data.layers), NonEmptyChunk)
    ELSE <<c.config_data>>

\* The chunks a session PATCHes: every layer of image_data in order
\* (lines 203-210), or the config as one chunk (line 539).
session_chunks(c, session) ==
    IF session = "layers" THEN LayerDataOf(c.image_data.layers)
    ELSE <<c.config_data>>

\* Where a session stands once it has sent i - 1 chunks of n.
after_chunk(i, n) == IF i <= n THEN "patch" ELSE "end"

\* after_end without the config session.
after_end_no_config(session) == "push_manifest"

\* What follows a finalized session: push_config after the layers (line
\* 222), push_manifest after the config (line 224).
after_end(session) == IF session = "layers" THEN "begin" ELSE "push_manifest"

\* ------------------------------------------------------------- call inputs

LayerBlobs == {<<>>, <<"x">>, <<"y", "x">>}

\* The layers of a pushed ImageData: the two-byte layer is plain text.
PushLayers ==
    {ImageLayer(d, IF Len(d) = 2 THEN TEXT_PLAIN ELSE WASM_LAYER_MEDIA_TYPE) :
        d \in LayerBlobs}

\* The digest field of a pushed ImageData: None, or what pull stored there.
StoredDigests == {NoneOpt} \cup {Some(d) : d \in ManifestDigests}

ImageDatas ==
    {ImageData(l, d) : l \in SeqUpTo(PushLayers, MaxLayers), d \in StoredDigests}

ConfigDatas == {<<>>, <<"x">>}

\* A manifest the caller of push supplies.
SuppliedManifest ==
    OciManifest(2, Some(IMAGE_MANIFEST_MEDIA_TYPE),
        OciDescriptor(WASM_CONFIG_MEDIA_TYPE, sha256_digest(<<"y">>), 1, NoneOpt), <<>>)

ImageManifests == {NoneOpt, Some(SuppliedManifest)}

PushArgs(image_data, config_data, image_manifest) ==
    [image_data |-> image_data, config_data |-> config_data,
     image_manifest |-> image_manifest]

\* The arguments push is called with: every image without a stored digest,
\* with a config and no manifest; and every image of whole layers with
\* every stored digest, config and manifest.
PushInputs ==
    {PushArgs(i, <<"x">>, NoneOpt) : i \in {j \in ImageDatas : j.digest = NoneOpt}}
    \cup {PushArgs(i, c, m) :
            i \in {j \in ImageDatas :
                     \A k \in DOMAIN j.layers : j.layers[k].data = <<"y", "x">>},
            c \in ConfigDatas, m \in ImageManifests}

AcceptedLists ==
    {<<>>, <<WASM_LAYER_MEDIA_TYPE>>, <<TEXT_PLAIN, WASM_LAYER_MEDIA_TYPE>>}

\* ------------------------------------------------------------------- state

VARIABLES
    config,      \* Client.config.protocol
    tokens,      \* Client.tokens: registry -> token
    origin,      \* history: registry -> host of the version request of the
                 \* auth flow that stored the registry's entry
    pc,          \* where the call in progress stands
    call,        \* the arguments of the call in progress
    tokens0,     \* history: tokens when the call started
    trace,       \* history: the kinds of the requests the call has sent, in order
    req,         \* history: the last request sent
    resp,        \* history: the last response received
    auth_ret,    \* history: Option<result of the auth flow run by this call>
    realm,       \* auth: the challenge taken from the version response
    disc_host,   \* history: the host the version request of this call went to
    pulled,      \* pull: Option<(manifest, digest)> returned by pull_manifest
    validated,   \* history: Option<result of validate_layers>
    fetch,       \* pull: the state of each layer's fetch
    completed,   \* history: the layers whose fetch has completed, in the order
                 \* they completed
    session,     \* push: "layers" or "config"
    location,    \* push: the URL the next request of the session goes to
    start_byte,  \* push: the byte cursor of the session
    idx,         \* push: the index of the next chunk of the session
    patched,     \* history: the bytes PATCHed in the session so far
    image_url,   \* push: the Location of the finalized layers session
    extracted,   \* history: Option<what extract_location_header last returned>
    result       \* the value the call returned

clientVars == <<config, tokens, origin>>

authVars == <<auth_ret, realm, disc_host>>

pullVars == <<pulled, validated, fetch, completed>>

pushVars == <<session, location, start_byte, idx, patched, image_url, extracted>>

\* The VolumeMount state of the kubelet: one state machine for each pod and
\* the provider state they share behind a read-write lock.
VARIABLES
    provider_state,  \* SharedState<P::ProviderState>: what the lock guards
    state_lock,      \* the lock: the pods that hold it for reading, and whether
                     \* the writer holds it
    writer_at,       \* where the task that writes the provider state stands
    pod_state,       \* P::PodState of each pod: its volumes
    next_at,         \* where next stands for each pod
    copied,          \* next: Option<(client, volume_path)> of each pod
    resolved,        \* history: Option<what volumes_from_pod returned> of each pod
    transition,      \* Option<the Transition next returned> of each pod
    status           \* Option<what json_status last returned> of each pod

volumeVars == <<provider_state, state_lock, writer_at, pod_state, next_at, copied,
                resolved, transition, status>>

ociVars == <<config, tokens, origin, pc, call, tokens0, trace, req, resp,
             auth_ret, realm, disc_host, pulled, validated, fetch, completed, session,
             location, start_byte, idx, patched, image_url, extracted, result>>

vars == <<ociVars, volumeVars>>

Pods == {"p1", "p2"}

VolumePaths == {"/a", "/b"}

\* P::ProviderState as next reads it: client() and volume_path().
ProviderState(client, volume_path) == [client |-> client, volume_path |-> volume_path]

\* The volumes of a pod: the references resolved for it, each under the
\* volume path it was resolved with.
VolumeLists == {<<>>} \cup {<<path>> : path \in VolumePaths}

Unlocked == [readers |-> {}, writer |-> FALSE]

\* Every pod is in the VolumeMount state and next has not been called.
VolumeMountEntered ==
    /\ state_lock = Unlocked
    /\ writer_at = "idle"
    /\ next_at = [p \in Pods |-> "VolumeMount"]
    /\ copied = [p \in Pods |-> NoneOpt]
    /\ resolved = [p \in Pods |-> NoneOpt]
    /\ transition = [p \in Pods |-> NoneOpt]
    /\ status = [p \in Pods |-> NoneOpt]

\* The kubelet as a client of the registry sees it: no pod has volumes.
NoVolumes ==
    /\ provider_state = ProviderState("kube", "/a")
    /\ pod_state = [p \in Pods |-> [volumes |-> <<>>]]
    /\ VolumeMountEntered

EmptyMap == [r \in {} |-> ""]

NoResponse == [transport_ok |-> FALSE, status |-> 0]

NoResult == [ok |-> FALSE, panic |-> FALSE, val |-> <<>>, err |-> "pending"]

\* The arguments of a call; an operation leaves those it does not take as
\* they are here.
Call(op, image, authentication, operation) ==
    [op |-> op, image |-> image, authentication |-> authentication,
     operation |-> operation, accepted_media_types |-> <<>>,
     image_data |-> ImageData(<<>>, NoneOpt), config_data |-> <<>>,
     config_media_type |-> "", image_manifest |-> NoneOpt]

NoCall == Call("none", Reference("", "", NoneOpt, NoneOpt), "Anonymous", OperationPull)

\* The first step of an operation once the auth flow is out of the way.
first_step(op) ==
    CASE op = "pull" -> "manifest"
      [] op = "fetch_manifest_digest" -> "digest"
      [] op = "push" -> "begin"
      [] OTHER -> "done"

\* entry_step with push asking for a token of its own scope every time.
entry_step_push_scope(toks, image, op) ==
    IF op = "push" \/ needs_auth(toks, image) THEN "auth_discovery" ELSE first_step(op)

\* Lines 144-146, 194-196, 309-311: where pull, push and
\* fetch_manifest_digest start.
entry_step(toks, image, op) ==
    IF needs_auth(toks, image) THEN "auth_discovery" ELSE first_step(op)

\* Client::new: no token is cached and no call is running.
Constructed ==
    /\ tokens = EmptyMap
    /\ origin = EmptyMap
    /\ pc = "idle"
    /\ call = NoCall
    /\ tokens0 = EmptyMap
    /\ trace = <<>>
    /\ req = NoRequest
    /\ resp = NoResponse
    /\ auth_ret = NoneOpt
    /\ realm = BearerChallenge(NoneOpt, NoneOpt, NoneOpt)
    /\ disc_host = NoneOpt
    /\ pulled = NoneOpt
    /\ validated = NoneOpt
    /\ fetch = <<>>
    /\ completed = <<>>
    /\ session = "layers"
    /\ location = <<>>
    /\ start_byte = 0
    /\ idx = 1
    /\ patched = <<>>
    /\ image_url = <<>>
    /\ extracted = NoneOpt
    /\ result = NoResult

\* Client::new(config)
Init ==
    /\ config \in Protocols
    /\ Constructed
    /\ NoVolumes

\* The state of a client no call is running on: what Client::new leaves
\* behind, and what is left when a call's result has been taken.
Quiescent ==
    /\ pc' = "idle"
    /\ call' = NoCall
    /\ tokens0' = EmptyMap
    /\ trace' = <<>>
    /\ req' = NoRequest
    /\ resp' = NoResponse
    /\ auth_ret' = NoneOpt
    /\ realm' = BearerChallenge(NoneOpt, NoneOpt, NoneOpt)
    /\ disc_host' = NoneOpt
    /\ pulled' = NoneOpt
    /\ validated' = NoneOpt
    /\ fetch' = <<>>
    /\ completed' = <<>>
    /\ session' = "layers"
    /\ location' = <<>>
    /\ start_byte' = 0
    /\ idx' = 1
    /\ patched' = <<>>
    /\ image_url' = <<>>
    /\ extracted' = NoneOpt
    /\ result' = NoResult

\* A call starts: the client is borrowed mutably, so no other call runs.
Enter(c, first) ==
    /\ pc = "idle"
    /\ call' = c
    /\ pc' = first
    /\ tokens0' = tokens
    /\ UNCHANGED <<trace, req, resp, authVars, pullVars, pushVars, result>>
    /\ UNCHANGED <<clientVars, volumeVars>>

\* The caller has the result; the client is free for the next call.
Finish ==
    /\ pc = "done"
    /\ Quiescent
    /\ UNCHANGED <<clientVars, volumeVars>>

\* The call returns res.
Return(res) ==
    /\ pc' = "done"
    /\ result' = res

\* failed_step running the auth flow again on a 401.
failed_step_reauth(res) ==
    IF res.status = StatusUnauthorized THEN "auth_discovery" ELSE "done"

\* Where a call stands after a step that failed on response res: the `?`
\* on every step hands the error to the caller; no step is tried again.
failed_step(res) == "done"

\* A step failed with the error got.
Fail(got, res) ==
    /\ pc' = failed_step(res)
    /\ result' = got

\* A request goes on the wire and is answered.
Send(r, res) ==
    /\ req' = r
    /\ trace' = Append(trace, r.kind)
    /\ resp' = res

\* auth(image, authentication, operation) called directly.
Auth ==
    \E image \in References, authentication \in RegistryAuths,
       operation \in {OperationPull, OperationPush} :
        Enter(Call("auth", image, authentication, operation), "auth_discovery")

\* fetch_manifest_digest(image, auth): lines 309-311.
FetchManifestDigest ==
    \E image \in References, authentication \in RegistryAuths :
        Enter(Call("fetch_manifest_digest", image, authentication, OperationPull),
              entry_step(tokens, image, "fetch_manifest_digest"))

\* pull(image, auth, accepted_media_types): lines 144-146.
Pull ==
    \E image \in References, authentication \in RegistryAuths,
       accepted \in AcceptedLists :
        Enter([Call("pull", image, authentication, OperationPull)
                 EXCEPT !.accepted_media_types = accepted],
              entry_step(tokens, image, "pull"))

\* pull_manifest running the auth flow when no token is cached.
pull_manifest_entry_auth(toks, image) == entry_step(toks, image, "pull")

\* Where pull_manifest starts when it is called on its own: at its
\* manifest GET, whatever the token cache holds.
pull_manifest_entry(toks, image) == "manifest"

\* pull_manifest(image) called on its own, as the tests of the module do.
PullManifestAlone ==
    \E image \in References :
        Enter(Call("pull_manifest", image, "Anonymous", OperationPull),
              pull_manifest_entry(tokens, image))

\* push(image_ref, image_data, config_data, config_media_type, auth,
\* image_manifest): lines 194-196.
Push ==
    \E image \in References, authentication \in RegistryAuths, args \in PushInputs :
        Enter([Call("push", image, authentication, OperationPush)
                 EXCEPT !.image_data = args.image_data,
                        !.config_data = args.config_data,
                        !.config_media_type = WASM_CONFIG_MEDIA_TYPE,
                        !.image_manifest = args.image_manifest],
              entry_step(tokens, image, "push"))

\* auth returns res to the operation that ran it: pull, push and
\* fetch_manifest_digest go on when it is Ok and return its error otherwise.
AuthReturn(res) ==
    /\ auth_ret' = Some(res)
    /\ IF call.op = "auth" \/ ~res.ok
       THEN Return(res)
       ELSE pc' = first_step(call.op) /\ UNCHANGED result

\* An auth flow that ends without a token request marking the registry as
\* done with an empty token.
tokens_after_discovery_marked(toks, image, next) ==
    IF next.ok /\ next.val = <<>> THEN insert(toks, token_key(image), "") ELSE toks

\* The token cache once the version request is answered: auth returns from
\* lines 249 and 258 without an insert.
tokens_after_discovery(toks, image, next) == toks

\* auth, lines 241-269: the version request and its answer.
AuthDiscovery ==
    /\ pc = "auth_discovery"
    /\ \E res \in DiscoveryResponses :
        LET r == Request("discovery", "GET", auth_discovery_url(config, call.image), NoneOpt)
            next == auth_after_discovery(res)
        IN  /\ Send(r, res)
            /\ disc_host' = UrlHost(r.url)
            /\ IF next.ok /\ next.val = <<"exchange">>
               THEN /\ realm' = res.bearer[1]
                    /\ pc' = "auth_token"
                    /\ UNCHANGED <<auth_ret, result>>
               ELSE /\ AuthReturn(next)
                    /\ UNCHANGED realm
            /\ tokens' = tokens_after_discovery(tokens, call.image, next)
    /\ UNCHANGED <<volumeVars, config, origin, call, tokens0, pullVars, pushVars>>

\* auth, lines 274-297: the token request and its answer.
AuthToken ==
    /\ pc = "auth_token"
    /\ \E res \in TokenResponses :
        LET r == Request("token", "GET",
                         token_request_url(Unwrap(realm.realm), Unwrap(realm.service),
                                           auth_scope(call.image, call.operation)),
                         apply_authentication(call.authentication))
            got == auth_after_token(res)
        IN  /\ Send(r, res)
            /\ IF got.ok
               THEN /\ tokens' = insert(tokens, token_key(call.image), got.val[1])
                    /\ origin' = insert(origin, token_key(call.image), Unwrap(disc_host))
                    /\ AuthReturn(Ok(<<>>))
               ELSE /\ AuthReturn(got)
                    /\ UNCHANGED <<tokens, origin>>
    /\ UNCHANGED <<volumeVars, config, call, tokens0, realm, disc_host, pullVars, pushVars>>

\* fetch_manifest_digest, lines 313-336: the manifest GET and its answer.
FetchDigest ==
    /\ pc = "digest"
    /\ \E res \in DigestResponses :
        /\ Send(Request("manifest_get", "GET", to_v2_manifest_url(config, call.image),
                        auth_headers(tokens, call.image)), res)
        /\ LET got == IF res.transport_ok THEN fetch_manifest_digest_result(res)
                      ELSE Err("transport")
           IN  IF got.ok THEN Return(got) ELSE Fail(got, res)
    /\ UNCHANGED <<volumeVars, clientVars, call, tokens0, authVars, pullVars, pushVars>>

\* The fetch of a layer: not started, request sent, or done with the bytes.
FetchIdle == [state |-> "idle", data |-> <<>>]

FetchSent == [state |-> "sent", data |-> <<>>]

FetchDone(data) == [state |-> "done", data |-> data]

\* pull, lines 148-164: pull_manifest, validate_layers, and one fetch per
\* layer descriptor, none of them started yet.
PullManifest ==
    /\ pc = "manifest"
    /\ \E res \in ManifestResponses :
        LET got == IF res.transport_ok THEN pull_manifest_result(res)
                   ELSE Err("transport")
            layers_ok == validate_layers(got.val.manifest, call.accepted_media_types)
        IN  /\ Send(Request("manifest_get", "GET", to_v2_manifest_url(config, call.image),
                            auth_headers(tokens, call.image)), res)
            /\ IF ~got.ok
               THEN /\ Fail(got, res)
                    /\ UNCHANGED pullVars
               ELSE IF call.op = "pull_manifest"
               THEN /\ pulled' = Some(got.val)
                    /\ Return(Ok(got.val))
                    /\ UNCHANGED <<validated, fetch, completed>>
               ELSE /\ pulled' = Some(got.val)
                    /\ validated' = Some(layers_ok)
                    /\ IF layers_ok.ok
                       THEN /\ fetch' = [i \in DOMAIN got.val.manifest.layers |-> FetchIdle]
                            /\ completed' = <<>>
                            /\ pc' = "layers"
                            /\ UNCHANGED result
                       ELSE /\ Return(layers_ok)
                            /\ UNCHANGED <<fetch, completed>>
    /\ UNCHANGED <<volumeVars, clientVars, call, tokens0, authVars, pushVars>>

\* pull_layer, lines 438-443: the blob GET of layer i goes out.
PullLayerSend ==
    /\ pc = "layers"
    /\ \E i \in DOMAIN fetch :
        /\ fetch[i].state = "idle"
        /\ req' = Request("blob_get", "GET",
                          to_v2_blob_url(config, call.image.registry,
                                         call.image.repository,
                                         Unwrap(pulled).manifest.layers[i].digest),
                          auth_headers(tokens, call.image))
        /\ trace' = Append(trace, "blob_get")
        /\ fetch' = [fetch EXCEPT ![i] = FetchSent]
    /\ UNCHANGED <<volumeVars, clientVars, pc, call, tokens0, resp, authVars, pulled, validated,
                   completed, pushVars, result>>

\* try_join_all returning as soon as one fetch is done.
try_join_any(fetched) == \E j \in DOMAIN fetched : fetched[j].state = "done"

\* try_join_all, line 166: every fetch has returned Ok.
try_join_all(fetched) == \A j \in DOMAIN fetched : fetched[j].state = "done"

\* pulled_image_data collecting the layers in the order their fetches
\* completed.
pulled_image_data_as_completed(layers, fetched, digest) ==
    ImageData([k \in DOMAIN layers |->
                  ImageLayer(fetched[completed'[k]].data,
                             layers[completed'[k]].media_type)],
              Some(digest))

\* The ImageData pull returns: lines 166-171.
pulled_image_data(layers, fetched, digest) ==
    ImageData([i \in DOMAIN layers |-> ImageLayer(fetched[i].data, layers[i].media_type)],
              Some(digest))

\* pull_layer, lines 444-451, and try_join_all, lines 166-171: the answer to
\* the blob GET of layer i.  The first fetch that fails makes pull return its
\* error; the last one to succeed makes pull return the ImageData.
PullLayerDone ==
    /\ pc = "layers"
    /\ \E i \in DOMAIN fetch, res \in LayerResponses :
        LET got == pull_layer_result(res)
            fetched == [fetch EXCEPT ![i] = FetchDone(got.val)]
        IN  /\ fetch[i].state = "sent"
            /\ resp' = res
            /\ IF ~got.ok
               THEN /\ Fail(got, res)
                    /\ UNCHANGED <<fetch, completed>>
               ELSE /\ fetch' = fetched
                    /\ completed' = Append(completed, i)
                    /\ IF try_join_all(fetched)
                       THEN Return(Ok(pulled_image_data(Unwrap(pulled).manifest.layers,
                                                        fetched, Unwrap(pulled).digest)))
                       ELSE UNCHANGED <<pc, result>>
    /\ UNCHANGED <<volumeVars, clientVars, call, tokens0, trace, req, authVars, pulled, validated,
                   pushVars>>

\* begin_push_session, lines 458-466, for the session at hand.
BeginPushSession ==
    /\ pc = "begin"
    /\ \E res \in UploadResponses :
        LET got == upload_result(config, call.image, res, StatusAccepted)
        IN  /\ Send([Request("upload_begin", "POST",
                             to_v2_blob_upload_url(config, call.image),
                             auth_headers(tokens, call.image))
                       EXCEPT !.content_length = Some(0)], res)
            /\ patched' = <<>>
            /\ extracted' = Extracted(res, got)
            /\ IF got.ok
               THEN /\ location' = got.val
                    /\ pc' = after_chunk(idx, Len(session_chunks(call, session)))
                    /\ UNCHANGED result
               ELSE /\ Fail(got, res)
                    /\ UNCHANGED location
    /\ UNCHANGED <<volumeVars, clientVars, call, tokens0, authVars, pullVars, session, start_byte,
                   idx, image_url>>

\* is_empty answering no for every layer.
is_empty_never(layer) == FALSE

\* push_layer, line 497: layer.is_empty()
is_empty(layer) == Len(layer) = 0

\* push_layer, lines 497-526, for chunk idx of the session: nothing is sent
\* for an empty chunk.
PushLayer ==
    /\ pc = "patch"
    /\ LET layer == session_chunks(call, session)[idx]
       IN  IF is_empty(layer)
           THEN /\ Return(Err("cannot push a layer without data"))
                /\ UNCHANGED <<trace, req, resp, pushVars>>
           ELSE \E res \in UploadResponses :
                LET got == upload_result(config, call.image, res, StatusAccepted)
                IN  /\ Send([Request("upload_patch", "PATCH", location,
                                     auth_headers(tokens, call.image))
                               EXCEPT !.range = content_range(start_byte, Len(layer)),
                                      !.content_length = Some(Len(layer)),
                                      !.body = layer], res)
                    /\ patched' = patched \o layer
                    /\ extracted' = Extracted(res, got)
                    /\ IF got.ok
                       THEN /\ location' = next_location(location, got.val)
                            /\ start_byte' = next_byte(start_byte, Len(layer))
                            /\ idx' = idx + 1
                            /\ pc' = after_chunk(idx + 1, Len(session_chunks(call, session)))
                            /\ UNCHANGED result
                       ELSE /\ Fail(got, res)
                            /\ UNCHANGED <<location, start_byte, idx>>
                    /\ UNCHANGED <<session, image_url>>
    /\ UNCHANGED <<volumeVars, clientVars, call, tokens0, authVars, pullVars>>

\* push_config going on from the cursor of the layers session.
config_start_byte_continued(cursor) == cursor

\* push_config, line 539: the start byte of its one PATCH.
config_start_byte(cursor) == 0

\* end_push_session, lines 478-484, for the session at hand; after the layers
\* session, push goes on to push_config with a cursor of 0 (line 539).
EndPushSession ==
    /\ pc = "end"
    /\ LET url == end_session_url(location, session_digest(call, session))
       IN  \E res \in UploadResponses :
                LET got == upload_result(config, call.image, res, StatusCreated)
                IN  /\ Send([Request("upload_end", "PUT", url,
                                     auth_headers(tokens, call.image))
                               EXCEPT !.content_length = Some(0)], res)
                    /\ IF got.ok
                       THEN /\ pc' = after_end(session)
                            /\ IF session = "layers"
                               THEN /\ image_url' = got.val
                                    /\ session' = "config"
                                    /\ start_byte' = config_start_byte(start_byte)
                                    /\ idx' = 1
                               ELSE UNCHANGED <<image_url, session, start_byte, idx>>
                            /\ UNCHANGED result
                       ELSE /\ Fail(got, res)
                            /\ UNCHANGED <<image_url, session, start_byte, idx>>
                    /\ UNCHANGED <<location, patched>>
                    /\ extracted' = Extracted(res, got)
    /\ UNCHANGED <<volumeVars, clientVars, call, tokens0, authVars, pullVars>>

\* push returning the location of the last response it received.
push_value_last_location(url, last) == last

\* The success value of push: the URL the layers' finalize returned, whatever
\* location the manifest PUT answered with.
push_value(url, last) == url

\* push_manifest, lines 553-572, and the return of push, line 226.
PushManifest ==
    /\ pc = "push_manifest"
    /\ \E res \in UploadResponses :
        LET got == upload_result(config, call.image, res, StatusCreated)
        IN  /\ Send([Request("manifest_put", "PUT", to_v2_manifest_url(config, call.image),
                             auth_headers(tokens, call.image))
                       EXCEPT !.manifest = Some(push_manifest_of(call))], res)
            /\ extracted' = Extracted(res, got)
            /\ IF got.ok THEN Return(Ok(push_value(image_url, got.val)))
                         ELSE Fail(got, res)
    /\ UNCHANGED <<volumeVars, clientVars, call, tokens0, authVars, pullVars, session, location,
                   start_byte, idx, patched, image_url>>

Next ==
    \/ Finish
    \/ Auth
    \/ FetchManifestDigest
    \/ Pull
    \/ PullManifestAlone
    \/ Push
    \/ AuthDiscovery
    \/ AuthToken
    \/ FetchDigest
    \/ PullManifest
    \/ PullLayerSend
    \/ PullLayerDone
    \/ BeginPushSession
    \/ PushLayer
    \/ EndPushSession
    \/ PushManifest

Spec == Init /\ [][Next]_vars

\* ------------------------------------------ the helpers called on their own

\* Every protocol policy over the registries of the model.
AllProtocols ==
    {ProtocolHttp, ProtocolHttps}
    \cup {ProtocolHttpsExcept(e) :
            e \in {<<>>, <<"r1">>, <<"r2">>, <<"r1", "r2">>}}

\* Every reference: with and without a tag, with and without a digest.
AllReferences ==
    {Reference(reg, repo, t, d) :
        reg \in Registries, repo \in Repositories,
        t \in {NoneOpt, Some("v1")}, d \in {NoneOpt, Some("sha256:51d9")}}

NoReference == Reference("", "", NoneOpt, NoneOpt)

InitFn ==
    /\ config \in AllProtocols
    /\ Constructed
    /\ NoVolumes

\* to_v2_manifest_url(reference) on a client of any policy.
ToV2ManifestUrl ==
    /\ pc = "idle"
    /\ \E reference \in AllReferences :
        /\ call' = Call("to_v2_manifest_url", reference, "Anonymous", OperationPull)
        /\ Return(Ok(to_v2_manifest_url(config, reference)))
    /\ UNCHANGED <<volumeVars, clientVars, tokens0, trace, req, resp, authVars, pullVars, pushVars>>

\* image_data.digest(): the value returned and the ImageData after the call.
ImageDataDigest ==
    /\ pc = "idle"
    /\ \E image_data \in ImageDatas :
        /\ call' = [Call("digest", NoReference, "Anonymous", OperationPull)
                      EXCEPT !.image_data = image_data]
        /\ Return(Ok([returned |-> image_digest(image_data),
                      self |-> image_after_digest(image_data)]))
    /\ UNCHANGED <<volumeVars, clientVars, tokens0, trace, req, resp, authVars, pullVars, pushVars>>

NextFn ==
    \/ ToV2ManifestUrl
    \/ ImageDataDigest
    \/ Finish

SpecFn == InitFn /\ [][NextFn]_vars

\* ---------------------------------------------- the VolumeMount pod state

\* The errors Ref::volumes_from_pod may return.
ResolveErrors == {[text |-> "secret not found"], [text |-> "unsupported volume"]}

\* e.to_string()
to_string(e) == e.text

\* What Ref::volumes_from_pod(&volume_path, &pod, &client) may return: the
\* references of the pod's volumes (none, or one under volume_path), or an
\* error.
volumes_from_pod(volume_path, client) ==
    {Ok(<<>>), Ok(<<volume_path>>)} \cup {Err(e) : e \in ResolveErrors}

\* Transition::next_unchecked(self, P::RunState::default())
RunState == [state |-> "RunState", message |-> ""]

\* Transition::next(self, Error::<P>::new(message))
ErrorState(message) == [state |-> "Error", message |-> message]

\* make_status(phase, reason)
make_status(phase, reason) == [phase |-> phase, reason |-> reason]

\* provider_state.read().await returned its guard to pod p.
read_guard(lock, p) == [lock EXCEPT !.readers = @ \cup {p}]

\* No guard of pod p is alive.
dropped(lock, p) == [lock EXCEPT !.readers = @ \ {p}]

\* guard_after_copy with state_reader alive to the end of next.
guard_after_copy_kept(lock, p) == lock

\* Line 41: the block that holds state_reader ends.
guard_after_copy(lock, p) == dropped(lock, p)

\* volumes_after setting the volumes of a failed resolution to none.
volumes_after_cleared(volumes, res) ==
    IF res.ok THEN res.val ELSE <<>>

\* Lines 42-50: the volumes of the pod state once the resolution returned.
volumes_after(volumes, res) ==
    IF res.ok THEN res.val ELSE volumes

\* Lines 43-51: the transition next returns.
transition_after(res) ==
    IF res.ok THEN RunState ELSE ErrorState(to_string(res.err))

\* VolumeMount has been entered for every pod; the provider state and the
\* volumes the pods had before are any.
InitVolume ==
    /\ config = ProtocolHttps
    /\ Constructed
    /\ provider_state \in {ProviderState("kube", path) : path \in VolumePaths}
    /\ pod_state \in [Pods -> {[volumes |-> v] : v \in VolumeLists}]
    /\ VolumeMountEntered

\* next, line 39: the read guard is granted when no writer holds the lock.
NextRead(p) ==
    /\ next_at[p] = "VolumeMount"
    /\ ~state_lock.writer
    /\ state_lock' = read_guard(state_lock, p)
    /\ next_at' = [next_at EXCEPT ![p] = "reading"]
    /\ UNCHANGED <<ociVars, provider_state, writer_at, pod_state, copied, resolved,
                   transition, status>>

\* next, lines 40-42: client and volume_path are copied out, the block ends,
\* and the resolution of the volumes is started.
NextCopy(p) ==
    /\ next_at[p] = "reading"
    /\ copied' = [copied EXCEPT ![p] = Some(provider_state)]
    /\ state_lock' = guard_after_copy(state_lock, p)
    /\ next_at' = [next_at EXCEPT ![p] = "resolving"]
    /\ UNCHANGED <<ociVars, provider_state, writer_at, pod_state, resolved, transition,
                   status>>

\* next, lines 42-51: the resolution returns, and next with it.
NextResolved(p) ==
    /\ next_at[p] = "resolving"
    /\ \E res \in volumes_from_pod(Unwrap(copied[p]).volume_path,
                                   Unwrap(copied[p]).client) :
        /\ pod_state' = [pod_state EXCEPT
                            ![p].volumes = volumes_after(pod_state[p].volumes, res)]
        /\ transition' = [transition EXCEPT ![p] = Some(transition_after(res))]
        /\ resolved' = [resolved EXCEPT ![p] = Some(res)]
    /\ state_lock' = dropped(state_lock, p)
    /\ next_at' = [next_at EXCEPT ![p] = "returned"]
    /\ UNCHANGED <<ociVars, provider_state, writer_at, copied, status>>

\* json_status, line 59
JsonStatus(p) ==
    /\ next_at[p] = "VolumeMount"
    /\ status' = [status EXCEPT ![p] = Some(Ok(make_status("Pending", "VolumeMount")))]
    /\ UNCHANGED <<ociVars, provider_state, state_lock, writer_at, pod_state, next_at,
                   copied, resolved, transition>>

\* Another task asks for the write lock on the provider state.
WriterRequest ==
    /\ writer_at = "idle"
    /\ writer_at' = "waiting"
    /\ UNCHANGED <<ociVars, provider_state, state_lock, pod_state, next_at, copied,
                   resolved, transition, status>>

\* The write lock is granted when nobody holds the lock.
WriterAcquire ==
    /\ writer_at = "waiting"
    /\ state_lock = Unlocked
    /\ state_lock' = [state_lock EXCEPT !.writer = TRUE]
    /\ writer_at' = "writing"
    /\ UNCHANGED <<ociVars, provider_state, pod_state, next_at, copied, resolved,
                   transition, status>>

\* The writer sets the volume path and drops its guard.
WriterRelease ==
    /\ writer_at = "writing"
    /\ \E path \in VolumePaths :
        provider_state' = [provider_state EXCEPT !.volume_path = path]
    /\ state_lock' = [state_lock EXCEPT !.writer = FALSE]
    /\ writer_at' = "idle"
    /\ UNCHANGED <<ociVars, pod_state, next_at, copied, resolved, transition, status>>

NextVolume ==
    \/ \E p \in Pods : NextRead(p)
    \/ \E p \in Pods : NextCopy(p)
    \/ \E p \in Pods : NextResolved(p)
    \/ \E p \in Pods : JsonStatus(p)
    \/ WriterRequest
    \/ WriterAcquire
    \/ WriterRelease

SpecVolume == InitVolume /\ [][NextVolume]_vars

\* The lock is granted to a writer that waits for it once it is free, and
\* next reaches the end of its first block once it has the guard: neither
\* awaits anything else.  Nothing makes a resolution return.
SpecVolumeFair ==
    /\ SpecVolume
    /\ WF_vars(WriterAcquire)
    /\ \A p \in Pods : WF_vars(NextCopy(p))

\* ------------------------------------------------------------- properties

HasKind(kinds) == \E i \in DOMAIN trace : trace[i] \in kinds

Count(kind) == Cardinality({i \in DOMAIN trace : trace[i] = kind})

IsRegistryKind(kind) == kind \in RegistryKinds

IsPrefix(s, t) == Len(s) <= Len(t) /\ \A i \in DOMAIN s : s[i] = t[i]

EnsuresAuth == call.op \in {"pull", "push", "fetch_manifest_digest"}

C2_TokenStaysWithItsRegistry ==
    IsSome(req.authorization) /\ IsSome(UrlHost(req.url)) =>
        LET host == Unwrap(UrlHost(req.url))
        IN  /\ contains_key(tokens, host)
            /\ Unwrap(req.authorization) = bearer_token(tokens[host])
            /\ origin[host] = host

Answered401 ==
    /\ req.kind \in {"manifest_get", "upload_begin", "upload_patch", "upload_end",
                     "manifest_put"}
    /\ resp.status = StatusUnauthorized

\* The most a call sends of each kind of request.
SentAtMostOnce ==
    /\ Count("discovery") <= 1
    /\ Count("token") <= 1
    /\ Count("manifest_get") <= 1
    /\ Count("manifest_put") <= 1
    /\ Count("upload_begin") <= 2
    /\ Count("upload_end") <= 2
    /\ Count("upload_patch") <= Len(call.image_data.layers) + 1
    /\ Count("blob_get") <= Len(fetch)

DigestParam(url) ==
    LET i == CHOOSE k \in DOMAIN url : url[k] = "&digest="
    IN  SubSeq(url, i + 1, Len(url))

\* C4: the digest a session is finalized with is the SHA-256 digest of the
\* bytes PATCHed in that session.
C4_FinalizeDigestOfPatchedBytes ==
    req.kind = "upload_end" => DigestParam(req.url) = sha256_digest(patched)

\* The Location of the last response, as the client rewrites it.
ReturnedLocation ==
    location_header_to_url(config, call.image, Unwrap(resp.location).str)

PreviousStepAccepted ==
    /\ req.kind \in {"upload_begin", "upload_patch"}
    /\ resp.transport_ok
    /\ resp.status = StatusAccepted
    /\ IsSome(resp.location)

\* C5: in the layers session of push, a PATCH is sent only when the request
\* before it (the begin, or the PATCH of the layer before) was accepted, it
\* goes to the Location that response returned, and it carries the next
\* layer of image_data; the finalize PUT is sent when every layer was
\* PATCHed, to the Location the last response returned.
C5_LayersOneByOneInOrder ==
    [][session = "layers" /\ trace' # trace =>
        /\ req'.kind = "upload_patch" =>
              /\ PreviousStepAccepted
              /\ req'.url = ReturnedLocation
              /\ req'.body = call.image_data.layers[Count("upload_patch") + 1].data
              /\ (req.kind = "upload_begin") = (Count("upload_patch") = 0)
        /\ req'.kind = "upload_end" =>
              /\ PreviousStepAccepted
              /\ Count("upload_patch") = Len(call.image_data.layers)
              /\ IsPrefix(ReturnedLocation \o <<"&digest=">>, req'.url)]_vars

\* Both layers of an image were PATCHed, to different Locations.
C5_Witness ==
    /\ session = "layers"
    /\ Count("upload_patch") = 2
    /\ req.kind = "upload_patch"
    /\ req.url # location
    /\ pc = "end"

PatchAccepted ==
    /\ resp.transport_ok
    /\ resp.status = StatusAccepted
    /\ IsSome(resp.location)
    /\ Unwrap(resp.location).ascii

\* C6: a PATCH of len bytes sent with cursor s carries Content-Range
\* s-(s+len-1) and Content-Length len, where s is the number of bytes PATCHed
\* before it in the session; when it succeeds the cursor is s+len.
C6_ByteCursor ==
    req.kind = "upload_patch" =>
        LET len == Len(req.body)
            s == Len(patched) - len
        IN  /\ len > 0
            /\ req.range = <<s, s + len - 1>>
            /\ req.content_length = Some(len)
            /\ PatchAccepted => start_byte = s + len

\* A second layer was PATCHed after a first of other size.
C6_Witness ==
    /\ req.kind = "upload_patch"
    /\ PatchAccepted
    /\ Len(patched) = 3
    /\ Len(req.body) = 2

\* The requests a successful push of n layers sends to the registry.
PushSequence(n) ==
    <<"upload_begin">> \o [i \in 1..n |-> "upload_patch"]
        \o <<"upload_end", "upload_begin", "upload_patch", "upload_end", "manifest_put">>

ExpectedStatus(kind) ==
    IF kind \in {"upload_begin", "upload_patch"} THEN StatusAccepted ELSE StatusCreated

StepFailed ==
    /\ req.kind \in {"upload_begin", "upload_patch", "upload_end", "manifest_put"}
    /\ ~(/\ resp.transport_ok
         /\ resp.status = ExpectedStatus(req.kind)
         /\ IsSome(resp.location)
         /\ Unwrap(resp.location).ascii)

\* C7: what push has sent to the registry is always a start of: begin, one
\* PATCH per layer, finalize, then begin, PATCH, finalize for the config,
\* then the manifest PUT; a push that returned success has sent all of it;
\* and a step that failed has ended the push with an error.
C7_PushOrder ==
    call.op = "push" =>
        LET sent == SelectSeq(trace, IsRegistryKind)
            whole == PushSequence(Len(call.image_data.layers))
        IN  /\ IsPrefix(sent, whole)
            /\ pc = "done" /\ result.ok => sent = whole
            /\ StepFailed => pc = "done" /\ ~result.ok

\* A push of two layers returned success.
C7_Witness ==
    /\ call.op = "push"
    /\ pc = "done"
    /\ result.ok
    /\ Len(call.image_data.layers) = 2

Accepts(accepted_media_types, media_type) ==
    \E j \in DOMAIN accepted_media_types : accepted_media_types[j] = media_type

LayersAcceptable(layers, accepted_media_types) ==
    /\ Len(layers) > 0
    /\ \A i \in DOMAIN layers : Accepts(accepted_media_types, layers[i].media_type)

\* C8: when the pulled manifest has no layers, or a layer whose media type is
\* not accepted, pull has returned an error and has sent no blob GET.
C8_NoBlobBeforeValidation ==
    call.op = "pull" /\ IsSome(pulled)
        /\ ~LayersAcceptable(Unwrap(pulled).manifest.layers, call.accepted_media_types) =>
            /\ pc = "done"
            /\ ~result.ok
            /\ ~HasKind({"blob_get"})

\* A manifest whose first layer is accepted and whose second is not.
C8_Witness ==
    /\ call.op = "pull"
    /\ IsSome(pulled)
    /\ Len(Unwrap(pulled).manifest.layers) = 2
    /\ Accepts(call.accepted_media_types, Unwrap(pulled).manifest.layers[1].media_type)
    /\ ~Accepts(call.accepted_media_types, Unwrap(pulled).manifest.layers[2].media_type)

\* C9: validate_layers succeeds exactly when the manifest has a layer and
\* every layer's media type is among the accepted ones; with no accepted
\* media type it fails.
C9_ValidateLayers ==
    IsSome(validated) =>
        /\ Unwrap(validated).ok
              = LayersAcceptable(Unwrap(pulled).manifest.layers, call.accepted_media_types)
        /\ call.accepted_media_types = <<>> => ~Unwrap(validated).ok

\* validate_layers was given a manifest without layers and an accepted type.
C9_Witness ==
    /\ IsSome(validated)
    /\ Unwrap(pulled).manifest.layers = <<>>
    /\ call.accepted_media_types # <<>>

BadVersionOrMediaType(text) ==
    /\ text.versioned
    /\ \/ text.schema_version # 2
       \/ IsSome(text.media_type) /\ Unwrap(text.media_type) # IMAGE_MANIFEST_MEDIA_TYPE

\* C10: a manifest pull_manifest returned has schema_version 2 and, if it
\* has a media type, the OCI manifest media type; a 200 whose body has
\* another version or media type gives an error and no manifest.
C10_AcceptedManifestVersion ==
    /\ IsSome(pulled) =>
          /\ Unwrap(pulled).manifest.schema_version = 2
          /\ IsSome(Unwrap(pulled).manifest.media_type) =>
                Unwrap(Unwrap(pulled).manifest.media_type) = IMAGE_MANIFEST_MEDIA_TYPE
    /\ call.op = "pull" /\ req.kind = "manifest_get" /\ resp.status = StatusOK
          /\ BadVersionOrMediaType(resp.text) =>
              /\ pulled = NoneOpt
              /\ pc = "done"
              /\ ~result.ok

\* A 200 with a digest header whose body is a well-formed manifest list.
C10_Witness ==
    /\ call.op = "pull"
    /\ req.kind = "manifest_get"
    /\ resp.status = StatusOK
    /\ IsSome(resp.digest)
    /\ resp.text.oci
    /\ resp.text.schema_version = 2
    /\ resp.text.media_type = Some(IMAGE_MANIFEST_LIST_MEDIA_TYPE)

IsLayerResponse(res) == "stream_ok" \in DOMAIN res

\* C11: pull has one fetch per layer descriptor of the manifest it
\* validated and sends at most one blob GET for each; when it returns
\* success every fetch is done and the ImageData holds, layer by layer, what
\* the fetches wrote; once a fetch has failed pull has returned an error.
C11_AllLayersOrError ==
    call.op = "pull" /\ IsSome(validated) /\ Unwrap(validated).ok =>
        LET layers == Unwrap(pulled).manifest.layers
        IN  /\ Len(fetch) = Len(layers)
            /\ Count("blob_get")
                  = Cardinality({i \in DOMAIN fetch : fetch[i].state # "idle"})
            /\ pc = "done" /\ result.ok =>
                  /\ \A i \in DOMAIN fetch : fetch[i].state = "done"
                  /\ Len(result.val.layers) = Len(layers)
                  /\ \A i \in DOMAIN layers :
                        result.val.layers[i]
                            = ImageLayer(fetch[i].data, layers[i].media_type)
            /\ IsLayerResponse(resp) /\ ~pull_layer_result(resp).ok =>
                  pc = "done" /\ ~result.ok

\* The second of two fetches is done while the first is still under way.
C11_Witness ==
    /\ call.op = "pull"
    /\ pc = "layers"
    /\ Len(fetch) = 2
    /\ fetch[1].state = "sent"
    /\ fetch[2].state = "done"

TokenGranted(res) ==
    /\ res.transport_ok
    /\ res.status = StatusOK
    /\ res.field \in {"token", "access_token"}

\* C12: no step of any call removes an entry of the tokens map; the entry
\* of a registry changes only in the step in which an auth flow for that
\* registry is answered with a token, and then to that token; and a step in
\* which an auth flow returns an error leaves the whole map as it was.
C12_TokenNeverLost ==
    [][/\ \A R \in DOMAIN tokens :
            /\ R \in DOMAIN tokens'
            /\ tokens'[R] # tokens[R] =>
                  /\ call.image.registry = R
                  /\ trace' # trace
                  /\ req'.kind = "token"
                  /\ TokenGranted(resp')
                  /\ tokens'[R] = resp'.token
                  /\ auth_ret' = Some(Ok(<<>>))
       /\ auth_ret' # auth_ret /\ IsSome(auth_ret') /\ ~Unwrap(auth_ret').ok =>
            tokens' = tokens]_vars

\* An auth flow replaced the token of r1 while r2 has a token of its own.
C12_Witness ==
    /\ contains_key(tokens0, "r1")
    /\ contains_key(tokens0, "r2")
    /\ call.image.registry = "r1"
    /\ tokens["r1"] # tokens0["r1"]
    /\ tokens["r2"] = tokens0["r2"]

\* The version request was just answered without a Bearer challenge.
AnonymousAnswer ==
    /\ req.kind = "discovery"
    /\ resp.transport_ok
    /\ resp.www \in {"absent", "basic"}

\* The auth flow of the call in progress returned Ok without a token request.
AnonymousFlow ==
    /\ Len(trace) >= 1
    /\ trace[1] = "discovery"
    /\ Len(trace) >= 2 => trace[2] # "token"
    /\ auth_ret = Some(Ok(<<>>))

\* C13, as stated: once an auth flow has ended without a Bearer challenge,
\* the requests that follow to the registry carry no Authorization header.
C13_NoHeaderAfterAnonymous ==
    AnonymousFlow => auth_headers(tokens, call.image) = NoneOpt

\* C13: a version response without a WWW-Authenticate header, or with one
\* that has no Bearer challenge, makes auth return Ok with no token request
\* sent and the tokens map as it was; the requests that follow carry the
\* Authorization header they would have carried before the flow: none when
\* no token was cached for the registry when the call started.
C13_AnonymousAccess ==
    /\ AnonymousAnswer => AnonymousFlow
    /\ AnonymousFlow =>
          /\ tokens = tokens0
          /\ ~HasKind({"token"})
          /\ auth_headers(tokens, call.image) = auth_headers(tokens0, call.image)
          /\ ~contains_key(tokens0, call.image.registry) /\ req.kind \in RegistryKinds =>
                req.authorization = NoneOpt

\* A pull whose auth flow met no Bearer challenge has sent its manifest GET.
C13_Witness ==
    /\ call.op = "pull"
    /\ AnonymousFlow
    /\ req.kind = "manifest_get"
    /\ req.authorization = NoneOpt
    /\ contains_key(tokens, "r2")

\* C14: when the token request has been answered, the tokens map is the
\* map of the start of the call with the answer's token stored under the
\* registry of the reference if the answer is a 200 holding a token or
\* access_token field, and auth has returned Ok; after any other answer the
\* map is the map of the start of the call and auth has returned an error,
\* which is the result of the call.
C14_TokenStoredIffGranted ==
    req.kind = "token" =>
        IF TokenGranted(resp)
        THEN /\ tokens = insert(tokens0, call.image.registry, resp.token)
             /\ auth_ret = Some(Ok(<<>>))
        ELSE /\ tokens = tokens0
             /\ IsSome(auth_ret)
             /\ ~Unwrap(auth_ret).ok
             /\ pc = "done"
             /\ result = Unwrap(auth_ret)

\* A push stored the token it was handed in an access_token field.
C14_Witness ==
    /\ call.op = "push"
    /\ req.kind = "token"
    /\ resp.status = StatusOK
    /\ resp.field = "access_token"
    /\ tokens0 = EmptyMap
    /\ tokens[call.image.registry] = resp.token

\* The operation the auth flow of the call in progress is run for.
FlowOperation ==
    CASE call.op \in {"pull", "fetch_manifest_digest"} -> OperationPull
      [] call.op = "push" -> OperationPush
      [] OTHER -> call.operation

\* The scope parameter of a token request URL.
ScopeParam(url) ==
    LET i == CHOOSE k \in DOMAIN url : url[k] = "&scope="
    IN  SubSeq(url, i + 1, Len(url))

\* C15: the token request asks the challenge's realm for the scope
\* repository:{repository}:pull when the flow is run for a Pull and
\* repository:{repository}:pull,push when it is run for a Push, with the
\* repository of the call's reference; it is not the scope of the challenge.
C15_TokenScope ==
    req.kind = "token" =>
        /\ ScopeParam(req.url)
              = <<"repository:", call.image.repository,
                  IF FlowOperation = OperationPull THEN ":pull" ELSE ":pull,push">>
        /\ ScopeParam(req.url) # Unwrap(realm.scope)
        /\ req.url = Unwrap(realm.realm) \o <<"?service=", Unwrap(realm.service), "&scope=">>
                        \o ScopeParam(req.url)

\* A push of repository b has sent its token request.
C15_Witness ==
    /\ call.op = "push"
    /\ call.image.repository = "b"
    /\ req.kind = "token"
    /\ IsSome(realm.scope)

\* fetch_manifest_digest has had its manifest GET answered.
DigestAnswered ==
    /\ call.op = "fetch_manifest_digest"
    /\ req.kind = "manifest_get"
    /\ resp.transport_ok

\* C16: fetch_manifest_digest returns a value only for a 200 that carries a
\* Docker-Content-Digest header, and the value is that header; a 200 without
\* the header and every other status make it return an error.
C16_DigestOnlyFromHeader ==
    DigestAnswered =>
        /\ pc = "done"
        /\ result.ok =>
              /\ resp.status = StatusOK
              /\ IsSome(resp.digest)
              /\ result.val = Unwrap(resp.digest).str
        /\ resp.status # StatusOK \/ ~IsSome(resp.digest) =>
              ~result.ok /\ ~result.panic

\* The version request was answered with a Bearer challenge that lacks its
\* realm or its service.
ChallengeIncomplete ==
    /\ req.kind = "discovery"
    /\ resp.transport_ok
    /\ resp.www = "bearer"
    /\ ~IsSome(resp.bearer[1].realm) \/ ~IsSome(resp.bearer[1].service)

\* The manifest GET was answered 4xx with an envelope that lists no error.
EnvelopeEmpty ==
    /\ req.kind = "manifest_get"
    /\ resp.transport_ok
    /\ is_client_error(resp.status)
    /\ resp.envelope = Some(<<>>)

\* C17: a call that fails returns an error value; so it does on a Bearer
\* challenge without realm or service and on a 4xx manifest response whose
\* envelope has an empty errors list.
C17_FailuresAreErrorValues ==
    /\ pc = "done" => ~result.panic
    /\ ChallengeIncomplete \/ EnvelopeEmpty =>
          pc = "done" /\ ~result.ok /\ ~result.panic

\* An upload request or the manifest PUT was answered.
UploadAnswered ==
    /\ req.kind \in {"upload_begin", "upload_patch", "upload_end", "manifest_put"}
    /\ resp.transport_ok

\* The call has not returned an error.
NotFailed == pc # "done" \/ result.ok

\* C18: an upload step that did not fail was answered with its own status,
\* 202 for the begin POST and the PATCH, 201 for the finalize PUT and the
\* manifest PUT, and with a Location header; an answer with any other
\* status, or without the header, has ended the call with an error that
\* holds no location.
C18_ExpectedStatusAndLocation ==
    UploadAnswered =>
        LET expected == IF req.kind \in {"upload_begin", "upload_patch"}
                        THEN 202 ELSE 201
        IN  /\ NotFailed => resp.status = expected /\ IsSome(resp.location)
            /\ resp.status # expected \/ ~IsSome(resp.location) =>
                  /\ pc = "done"
                  /\ ~result.ok
                  /\ result.val = <<>>

\* A begin POST answered 201 with a Location has ended the push.
C18_Witness ==
    /\ req.kind = "upload_begin"
    /\ resp.status = StatusCreated
    /\ IsSome(resp.location)
    /\ Unwrap(resp.location).ascii
    /\ pc = "done"
    /\ ~result.ok

\* push_layer is about to run on an empty byte sequence.
EmptyChunkNext ==
    /\ pc = "patch"
    /\ Len(session_chunks(call, session)[idx]) = 0

\* C19: push_layer on an empty layer returns an error and sends nothing,
\* whatever the location and the cursor; no PATCH ever has an empty body.
C19_EmptyLayerRejected ==
    /\ [](req.kind = "upload_patch" => Len(req.body) > 0)
    /\ [][EmptyChunkNext =>
            /\ pc' = "done"
            /\ ~result'.ok
            /\ result'.err = "cannot push a layer without data"
            /\ trace' = trace
            /\ req' = req
            /\ location' = location]_vars

\* The second layer of a push was empty: the first PATCH was the last
\* request of the push.
C19_Witness ==
    /\ call.op = "push"
    /\ session = "layers"
    /\ pc = "done"
    /\ result.err = "cannot push a layer without data"
    /\ start_byte = 2
    /\ req.kind = "upload_patch"

\* The value of the Location header of the last response.
LocationValue == Unwrap(resp.location).str

\* C20: whichever upload request was answered (begin, PATCH, finalize,
\* manifest PUT), the location extracted from the answer is the header's
\* value behind scheme://registry of the call's reference when the value
\* starts with /v2/, and the value itself otherwise; it is the location the
\* session goes on with, and after the layers' finalize the URL push returns.
C20_LocationRewriting ==
    UploadAnswered /\ IsSome(extracted) /\ Unwrap(extracted).ok =>
        LET url == IF Head(LocationValue) = "/v2/"
                   THEN <<scheme_for(config, call.image.registry), "://",
                          call.image.registry>> \o LocationValue
                   ELSE LocationValue
        IN  /\ Unwrap(extracted).val = url
            /\ req.kind \in {"upload_begin", "upload_patch"} => location = url
            /\ req.kind = "upload_end" /\ Count("upload_end") = 1 => image_url = url

\* The manifest PUT of a push to r2 was answered with a /v2/ path.
C20_Witness ==
    /\ req.kind = "manifest_put"
    /\ call.image.registry = "r2"
    /\ IsSome(extracted)
    /\ Unwrap(extracted).ok
    /\ Head(LocationValue) = "/v2/"

\* C21: the manifest URL is scheme://registry/v2/repository/manifests/x,
\* with x the digest of the reference if it has one, else its tag if it has
\* one, else latest, and with scheme http under Http, https under Https, and
\* under HttpsExcept(S) http exactly when the registry is among S.
C21_ManifestUrl ==
    call.op = "to_v2_manifest_url" =>
        LET r == call.image
            x == IF IsSome(r.digest) THEN Unwrap(r.digest)
                 ELSE IF IsSome(r.tag) THEN Unwrap(r.tag)
                 ELSE "latest"
            listed == \E i \in DOMAIN config.exceptions : config.exceptions[i] = r.registry
            scheme == IF config.kind = "Http" \/ (config.kind = "HttpsExcept" /\ listed)
                      THEN "http" ELSE "https"
        IN  /\ result.ok
            /\ result.val
                  = <<scheme, "://", r.registry, "/v2/", r.repository, "/manifests/", x>>

\* A reference with a tag and a digest, to a registry on the exception list.
C21_Witness ==
    /\ call.op = "to_v2_manifest_url"
    /\ config = ProtocolHttpsExcept(<<"r1", "r2">>)
    /\ IsSome(call.image.tag)
    /\ IsSome(call.image.digest)
    /\ result.val[1] = "http"
    /\ result.val[7] = "sha256:51d9"

C23_ComputedDigestStored ==
    call.op = "digest" /\ ~IsSome(call.image_data.digest) =>
        result.val.self.digest = Some(result.val.returned)

\* C24: the manifest a push without a manifest PUTs has the config media
\* type, length and SHA-256 digest of the config it was given, and one layer
\* descriptor per layer of image_data, in order, with the length, SHA-256
\* digest and media type of that layer and the digest as its only
\* annotation, org.opencontainers.image.title.
C24_GeneratedManifest ==
    req.kind = "manifest_put" /\ call.image_manifest = NoneOpt =>
        LET m == Unwrap(req.manifest)
            layers == call.image_data.layers
        IN  /\ m.config.media_type = call.config_media_type
            /\ m.config.size = Len(call.config_data)
            /\ m.config.digest = <<"sha256:">> \o call.config_data
            /\ Len(m.layers) = Len(layers)
            /\ \A i \in DOMAIN layers :
                  /\ m.layers[i].size = Len(layers[i].data)
                  /\ m.layers[i].digest = <<"sha256:">> \o layers[i].data
                  /\ m.layers[i].media_type = layers[i].media_type
                  /\ m.layers[i].annotations = Some([title |-> m.layers[i].digest])

\* The manifest of two layers of different size and media type was PUT.
C24_Witness ==
    /\ req.kind = "manifest_put"
    /\ call.image_manifest = NoneOpt
    /\ Len(Unwrap(req.manifest).layers) = 2
    /\ Unwrap(req.manifest).layers[1].size = 2
    /\ Unwrap(req.manifest).layers[2].size = 1
    /\ Unwrap(req.manifest).layers[1].media_type = TEXT_PLAIN
    /\ Unwrap(req.manifest).layers[2].media_type = WASM_LAYER_MEDIA_TYPE

\* C25: the value a successful push returns is the rewritten Location of the
\* response that finalized the layers session; it is kept unchanged through
\* the config session and the manifest PUT, whose Locations are discarded,
\* and it is returned only when the config was finalized and the manifest
\* PUT was answered 201.
C25_PushReturnsLayersLocation ==
    /\ [](call.op = "push" /\ pc = "done" /\ result.ok =>
            /\ result.val = image_url
            /\ Count("upload_end") = 2
            /\ req.kind = "manifest_put"
            /\ resp.transport_ok /\ resp.status = StatusCreated)
    /\ [][/\ pc = "end" /\ session = "layers" /\ pc' = "begin" =>
                image_url' = ReturnedLocation'
          /\ pc \in {"begin", "patch", "end", "push_manifest"} /\ session = "config" =>
                image_url' = image_url]_vars

\* A push returned a URL that is not the Location its manifest PUT was
\* answered with.
C25_Witness ==
    /\ call.op = "push" /\ pc = "done" /\ result.ok
    /\ result.val # ReturnedLocation
    /\ Head(LocationValue) = "/v2/"

\* C26: the ImageData of a successful pull has one layer per layer
\* descriptor of the manifest, the i-th holding the bytes the fetch of the
\* i-th descriptor wrote and that descriptor's media type, in whatever order
\* the fetches completed; its digest is the value of the
\* Docker-Content-Digest header of the manifest response.
C26_PulledImageData ==
    /\ [](call.op = "pull" /\ pc = "done" /\ result.ok =>
            LET layers == Unwrap(pulled).manifest.layers
            IN  /\ Len(result.val.layers) = Len(layers)
                /\ \A i \in DOMAIN layers :
                      /\ result.val.layers[i].data = fetch[i].data
                      /\ result.val.layers[i].media_type = layers[i].media_type
                /\ result.val.digest = Some(Unwrap(pulled).digest))
    /\ [][pc = "manifest" /\ IsSome(pulled') =>
                Unwrap(pulled').digest = Unwrap(resp'.digest).str]_vars

\* A pull of two layers of different media types returned after the fetch
\* of the second layer completed before the fetch of the first, the two
\* having written different bytes.
C26_Witness ==
    /\ call.op = "pull" /\ pc = "done" /\ result.ok
    /\ completed = <<2, 1>>
    /\ fetch[1].data # fetch[2].data
    /\ Unwrap(pulled).manifest.layers[1].media_type
            # Unwrap(pulled).manifest.layers[2].media_type

\* The manifest GET went out without an Authorization header and was
\* answered 401, or went out with one and was answered 200 with a digest
\* header and a version 2 OCI manifest: what a registry that demands a
\* bearer token answers.
DemandsBearer ==
    /\ req.kind = "manifest_get"
    /\ resp.transport_ok
    /\ IF IsSome(req.authorization)
       THEN /\ resp.status = StatusOK
            /\ IsSome(resp.digest) /\ Unwrap(resp.digest).ascii
            /\ resp.text.oci /\ ~BadVersionOrMediaType(resp.text)
       ELSE resp.status = StatusUnauthorized

\* C27: pull_manifest called on its own sends no version and no token
\* request and leaves the token cache as it found it; its manifest GET
\* carries the bearer token cached for the registry and no Authorization
\* header when none is cached; so against a registry that demands a bearer
\* token it fails on a client with no token and succeeds on a client whose
\* auth stored one.
C27_PullManifestNoAuth ==
    call.op = "pull_manifest" =>
        /\ ~HasKind(AuthKinds)
        /\ tokens = tokens0
        /\ pc = "done" =>
              /\ trace = <<"manifest_get">>
              /\ req.authorization = auth_headers(tokens0, call.image)
              /\ IsSome(req.authorization) <=> contains_key(tokens0, call.image.registry)
              /\ DemandsBearer =>
                    (result.ok <=> contains_key(tokens0, call.image.registry))

\* pull_manifest failed on a 401 with no token cached.
C27_Witness ==
    /\ call.op = "pull_manifest" /\ pc = "done"
    /\ DemandsBearer
    /\ ~contains_key(tokens0, call.image.registry)
    /\ ~result.ok

\* The digest push_config is given: manifest.config.digest, lines 218-222.
ConfigDigest ==
    IF IsSome(call.image_manifest) THEN Unwrap(call.image_manifest).config.digest
    ELSE <<"sha256:">> \o call.config_data

\* C28: push_config is an upload session of its own: it POSTs to the upload
\* URL of the repository, PATCHes the whole config once, with a range that
\* starts at byte 0, to the Location the POST was answered with, and
\* finalizes at the Location the PATCH was answered with, with the config
\* digest it was given; with an empty config it has begun the session and
\* then fails without a PATCH.
C28_ConfigSession ==
    /\ [](call.op = "push" /\ session = "config" =>
            /\ Count("upload_patch") <= Len(call.image_data.layers) + 1
            /\ Count("upload_begin") <= 2
            /\ call.config_data = <<>> =>
                  /\ pc \notin {"end", "push_manifest"}
                  /\ Count("upload_patch") = Len(call.image_data.layers)
                  /\ pc = "done" => ~result.ok /\ Count("upload_begin") = 2)
    /\ [][session = "config" /\ session' = "config" =>
            /\ pc = "begin" =>
                  /\ req'.kind = "upload_begin"
                  /\ req'.url = to_v2_blob_upload_url(config, call.image)
            /\ pc = "patch" /\ trace' # trace =>
                  /\ req.kind = "upload_begin"
                  /\ req'.kind = "upload_patch"
                  /\ req'.url = ReturnedLocation
                  /\ req'.range = <<0, Len(call.config_data) - 1>>
                  /\ req'.body = call.config_data
            /\ pc = "patch" /\ trace' = trace =>
                  /\ call.config_data = <<>>
                  /\ req.kind = "upload_begin"
                  /\ pc' = "done" /\ ~result'.ok
            /\ pc = "end" =>
                  /\ req.kind = "upload_patch"
                  /\ req'.kind = "upload_end"
                  /\ req'.url = ReturnedLocation \o <<"&digest=">> \o ConfigDigest]_vars

\* After two layers, the config session was finalized at a Location other
\* than the one its POST was answered with.
C28_Witness ==
    /\ call.op = "push" /\ session = "config" /\ pc = "push_manifest"
    /\ Len(call.image_data.layers) = 2
    /\ req.kind = "upload_end"
    /\ ~IsPrefix(<<scheme_for(config, call.image.registry), "://",
                   call.image.registry, "/v2/", "u1">>, req.url)

\* C29: an auth flow whose version request is answered without a Bearer
\* challenge caches nothing, and neither does the rest of the call nor its
\* return; a call of pull, push or fetch_manifest_digest that finds no token
\* for its registry starts with the version request; so as long as the
\* registry answers without a challenge, every such call sends the version
\* request again.
C29_AnonymousFlowEveryCall ==
    /\ [](EnsuresAuth /\ AnonymousFlow =>
            /\ tokens = tokens0
            /\ ~contains_key(tokens, call.image.registry))
    /\ [][/\ pc = "auth_discovery" =>
                /\ trace' = Append(trace, "discovery")
                /\ req'.kind = "discovery"
                /\ AnonymousAnswer' => tokens' = tokens
          /\ pc = "done" => tokens' = tokens
          /\ pc = "idle" /\ EnsuresAuth' /\ ~contains_key(tokens, call'.image.registry) =>
                pc' = "auth_discovery"]_vars

\* A pull whose auth flow ended without a Bearer challenge has returned an
\* image and left no token for its registry.
C29_Witness ==
    /\ call.op = "pull" /\ pc = "done" /\ result.ok
    /\ AnonymousFlow
    /\ ~contains_key(tokens, call.image.registry)

UploadKinds == {"upload_begin", "upload_patch", "upload_end", "manifest_put"}

\* C30: the token cache is read by registry alone: a push that finds a
\* token for the registry of its reference, whatever call stored it and
\* whatever repository and scope it was asked for, sends no version and no
\* token request, leaves the cache as it is, and sends every upload request
\* with that token; a push sends a token request, for the scope
\* repository:{repository}:pull,push, only when it found no token for the
\* registry.
C30_TokenPerRegistry ==
    call.op = "push" =>
        /\ contains_key(tokens0, call.image.registry) =>
              /\ ~HasKind(AuthKinds)
              /\ tokens = tokens0
              /\ req.kind \in UploadKinds =>
                    req.authorization
                        = Some(<<"Bearer ", tokens0[call.image.registry]>>)
        /\ req.kind = "token" =>
              /\ ~contains_key(tokens0, call.image.registry)
              /\ ScopeParam(req.url)
                    = <<"repository:", call.image.repository, ":pull,push">>

\* A push to repository b of r1 that found a token for r1 has had its
\* manifest PUT accepted.
C30_Witness ==
    /\ call.op = "push" /\ pc = "done" /\ result.ok
    /\ call.image.registry = "r1" /\ call.image.repository = "b"
    /\ contains_key(tokens0, "r1")
    /\ req.kind = "manifest_put"
    /\ req.authorization = Some(<<"Bearer ", tokens0["r1"]>>)

\* The layer whose fetch completed last.
LastCompleted == completed[Len(completed)]

\* C31: whatever the status of a blob response, 200, 4xx or 5xx, when the
\* response arrived and its body streamed to its end the fetch of that
\* layer is done with the bytes of the body and pull has not failed; a pull
\* that returns an image holds those bytes as the data of the layer.
C31_StatusOfBlobIgnored ==
    call.op = "pull" /\ IsLayerResponse(resp) /\ resp.transport_ok /\ resp.stream_ok =>
        /\ NotFailed
        /\ completed # <<>>
        /\ fetch[LastCompleted] = FetchDone(resp.data)
        /\ pc = "done" => result.val.layers[LastCompleted].data = resp.data

\* A pull returned an image of two layers that hold the bodies of error
\* responses, the second the body of a 500.
C31_Witness ==
    /\ call.op = "pull" /\ pc = "done" /\ result.ok
    /\ IsLayerResponse(resp) /\ resp.status = StatusServerError
    /\ completed = <<1, 2>>
    /\ result.val.layers[1].data = <<"y">>
    /\ result.val.layers[2].data = resp.data

\* The index of the first layer without bytes; 0 when every layer has some.
FirstEmptyLayer(layers) ==
    IF \E k \in DOMAIN layers : Len(layers[k].data) = 0
    THEN CHOOSE k \in DOMAIN layers :
            /\ Len(layers[k].data) = 0
            /\ \A j \in 1..(k - 1) : Len(layers[j].data) > 0
    ELSE 0

\* C32: when layer k is the first empty layer of image_data, push sends at
\* most the begin POST and the PATCHes of the k-1 layers before it, never a
\* finalize PUT, a config request or a manifest PUT, and it returns the
\* error of the empty layer exactly when those k-1 PATCHes were accepted;
\* with no layer at all push sends no PATCH in the layers session and
\* finalizes it at the Location the begin POST was answered with.
C32_FirstEmptyLayer ==
    /\ [](call.op = "push" =>
            LET layers == call.image_data.layers
                k == FirstEmptyLayer(layers)
            IN  /\ k > 0 =>
                      /\ session = "layers"
                      /\ pc \notin {"end", "push_manifest"}
                      /\ ~HasKind({"upload_end", "manifest_put"})
                      /\ Count("upload_begin") <= 1
                      /\ Count("upload_patch") <= k - 1
                      /\ pc = "done" /\ result.err = "cannot push a layer without data" =>
                            /\ Count("upload_begin") = 1
                            /\ Count("upload_patch") = k - 1
                      /\ pc = "done" /\ Count("upload_patch") = k - 1
                            /\ PreviousStepAccepted /\ Unwrap(resp.location).ascii =>
                            result.err = "cannot push a layer without data"
                /\ Len(layers) = 0 /\ session = "layers" => Count("upload_patch") = 0)
    /\ [][call.op = "push" /\ session = "layers" /\ Len(call.image_data.layers) = 0
            /\ pc = "end" =>
                /\ req.kind = "upload_begin"
                /\ req'.kind = "upload_end"
                /\ IsPrefix(ReturnedLocation \o <<"&digest=">>, req'.url)]_vars

\* The second layer of a push is empty: push returned its error with the
\* session begun, one PATCH accepted and nothing finalized.
C32_Witness ==
    /\ call.op = "push" /\ pc = "done"
    /\ FirstEmptyLayer(call.image_data.layers) = 2
    /\ result.err = "cannot push a layer without data"
    /\ trace = <<"upload_begin", "upload_patch">>
    /\ PatchAccepted

\* C33: a direct call of auth starts with the version request whether or
\* not a token is cached for the registry; when its token request is
\* answered with a token, the entry of the registry is that token, whatever
\* it was before, and the other entries are as they were; the map holds one
\* token string for each registry it has an entry for.
C33_DirectAuthReplacesToken ==
    /\ [](/\ DOMAIN tokens \subseteq Registries
          /\ \A R \in DOMAIN tokens : tokens[R] \in TokenStrings
          /\ call.op = "auth" /\ Len(trace) >= 1 => trace[1] = "discovery"
          /\ call.op = "auth" /\ pc = "done" => Len(trace) >= 1)
    /\ [][/\ pc = "idle" /\ call'.op = "auth" => pc' = "auth_discovery"
          /\ call.op = "auth" /\ pc = "auth_token" /\ TokenGranted(resp') =>
                /\ DOMAIN tokens' = DOMAIN tokens \cup {call.image.registry}
                /\ tokens'[call.image.registry] = resp'.token
                /\ \A R \in DOMAIN tokens :
                      R # call.image.registry => tokens'[R] = tokens[R]]_vars

\* A direct auth on a client that held a token for the registry has
\* replaced it with another one.
C33_Witness ==
    /\ call.op = "auth" /\ pc = "done" /\ result.ok
    /\ trace = <<"discovery", "token">>
    /\ contains_key(tokens0, call.image.registry)
    /\ tokens[call.image.registry] # tokens0[call.image.registry]
    /\ tokens[call.image.registry] = resp.token

\* C34: when next has returned for a pod, the resolution of its volumes
\* succeeded if and only if the transition is to RunState, and then the
\* volumes of the pod state are the resolved ones; when the resolution
\* failed the transition is to Error with the text of the error, and the
\* step in which next returned left the volumes of the pod state as they
\* were; no other step of next touches them.  json_status returns phase
\* Pending with reason VolumeMount and changes nothing else.
C34_VolumeMountNext ==
    /\ [](\A p \in Pods :
            /\ IsSome(transition[p]) <=> next_at[p] = "returned"
            /\ IsSome(resolved[p]) <=> next_at[p] = "returned"
            /\ next_at[p] = "returned" =>
                  LET res == Unwrap(resolved[p])
                      to == Unwrap(transition[p])
                  IN  /\ res.ok <=> to.state = "RunState"
                      /\ res.ok => pod_state[p].volumes = res.val
                      /\ ~res.ok => to.state = "Error" /\ to.message = res.err.text
            /\ IsSome(status[p]) =>
                  /\ Unwrap(status[p]).ok
                  /\ Unwrap(status[p]).val.phase = "Pending"
                  /\ Unwrap(status[p]).val.reason = "VolumeMount")
    /\ [][\A p \in Pods :
            /\ pod_state'[p] # pod_state[p] =>
                  /\ next_at[p] = "resolving" /\ next_at'[p] = "returned"
                  /\ Unwrap(resolved'[p]).ok
            /\ status' # status =>
                  <<provider_state, state_lock, writer_at, pod_state, next_at,
                    copied, resolved, transition>>'
                  = <<provider_state, state_lock, writer_at, pod_state, next_at,
                      copied, resolved, transition>>]_vars

\* next has returned for both pods: for one to Error, its volumes still
\* those it had, for the other to RunState with the volumes resolved under
\* the volume path it copied.
C34_Witness ==
    /\ IsSome(transition["p1"]) /\ IsSome(transition["p2"])
    /\ Unwrap(transition["p1"]).state = "Error"
    /\ pod_state["p1"].volumes = <<"/b">>
    /\ Unwrap(copied["p1"]).volume_path = "/a"
    /\ Unwrap(transition["p2"]).state = "RunState"
    /\ pod_state["p2"].volumes = <<Unwrap(copied["p2"]).volume_path>>
    /\ IsSome(status["p1"])

\* C35: a pod holds the read lock on the provider state only between the
\* grant of the guard and the copy of client and volume path: no pod whose
\* resolution is running, or has returned, holds it; so a writer that
\* waits for the lock gets it although resolutions run or never return.
C35_LockNotHeldAcrossResolution ==
    /\ [](\A p \in Pods :
            /\ p \in state_lock.readers <=> next_at[p] = "reading"
            /\ next_at[p] = "resolving" => IsSome(copied[p]))
    /\ [](state_lock.writer => state_lock.readers = {})
    /\ (writer_at = "waiting" ~> writer_at = "writing")

\* The writer holds the lock while the resolutions of both pods are running.
C35_Witness ==
    /\ writer_at = "writing"
    /\ state_lock.writer
    /\ \A p \in Pods : next_at[p] = "resolving"

====
